---- MODULE Spec2Model ----
(***************************************************************************)
(* The per-connection runner of internal/clientconn/conn.go: conn.run,     *)
(* conn.route, the cancellation watcher goroutine and the deferred         *)
(* functions of run.  The wire codec (wire.ReadMessage, wire.WriteMessage, *)
(* MarshalBinary), the proxy router (proxy.Router.Route) and the command   *)
(* handlers are collaborators whose code is outside this development; they *)
(* appear as nondeterministic outcomes drawn from small sets.              *)
(***************************************************************************)
EXTENDS Integers, Sequences, FiniteSets, TLC

\* ------------------------------------------------------------------ bounds
\* number of messages one connection reads in a behaviour
MaxRequests == 2

\* ------------------------------------------------------- wire constants
MsgHeaderLen == 16
OpCodeReply == 1
OpCodeUpdate == 2001
OpCodeInsert == 2002
OpCodeGetByOID == 2003
OpCodeQuery == 2004
OpCodeGetMore == 2005
OpCodeDelete == 2006
OpCodeKillCursors == 2007
OpCodeCompressed == 2012
OpCodeMsg == 2013
\* an opcode value that is none of the recognized ones
OpCodeUnknown == OpCodeMsg + 1
\* the zero value of wire.OpCode, as left in new(wire.MsgHeader)
OpCodeZero == 0

LegacyOpCodes ==
    {OpCodeReply, OpCodeUpdate, OpCodeInsert, OpCodeGetByOID, OpCodeGetMore,
     OpCodeDelete, OpCodeKillCursors, OpCodeCompressed}

\* opcodes of the messages a client sends in the model
RequestOpCodes == {OpCodeMsg, OpCodeQuery, OpCodeDelete, OpCodeUnknown}

\* request ids chosen by the client
RequestIDs == <<7, 9>>
\* the id the client gives its n-th message
ClientRequestID(n) == RequestIDs[((n - 1) % Len(RequestIDs)) + 1]

\* steps of the upstream server's own request-id counter between two of its
\* responses (it serves other clients as well)
UpstreamGaps == {1, 2}

\* atomic.Int32: Add(1) wraps around
MaxInt32 == 2147483647
MinInt32 == -MaxInt32 - 1

\* ---------------------------------------------------------------- modes
NormalMode == "normal"
ProxyMode == "proxy"
DiffNormalMode == "diff-normal"
DiffProxyMode == "diff-proxy"
AllModes == {NormalMode, ProxyMode, DiffNormalMode, DiffProxyMode}

\* ------------------------------------------------------ headers, bodies
\* nil *wire.MsgHeader and nil wire.MsgBody
NilHeader == [nil |-> TRUE]
NilBody == [nil |-> TRUE]
\* no handler outcome yet
NoCall == [nil |-> TRUE]
\* no diff logged
NoLog == [nil |-> TRUE]

\* zapcore.Level: the levels run logs at; InfoLevel is the zero value
DebugLevel == 0 - 1
InfoLevel == 0
WarnLevel == 1
ErrorLevel == 2

MsgHeader(len, id, to, op) ==
    [MessageLength |-> len, RequestID |-> id, ResponseTo |-> to, OpCode |-> op]

\* byte sizes of the documents carried by responses
OkDocSizes == {20}
ProxyDocSizes == {20, 38}
ErrDocSizes == {91}
ErrDocSize == CHOOSE n \in ErrDocSizes : TRUE

\* a wire.OpMsg with one kind-0 section holding a document; origin records who
\* built it (the handler, the runner's validation branch, the upstream)
OpMsg(ok, size, origin) == [type |-> "OpMsg", ok |-> ok, size |-> size, origin |-> origin]
OpReply(ok, size, origin) == [type |-> "OpReply", ok |-> ok, size |-> size, origin |-> origin]

\* len(MarshalBinary()): OP_MSG is flagBits, the section kind byte and the
\* document; OP_REPLY is flags, cursorID, startingFrom, numberReturned and
\* the document
MarshalLen(body) ==
    IF body.type = "OpMsg" THEN 4 + 1 + body.size ELSE 4 + 8 + 4 + 4 + body.size

\* error codes of the command errors the model uses
ErrInternalError == 1
ErrBadValue == 2
ErrCommandNotFound == 59

\* the command registry (commoncommands.Commands): the names a request can
\* carry, the registered ones, and those registered with a handler
CommandNames == {"ping", "noSuchCmd", "unimplemented"}
Commands == {"ping", "unimplemented"}
WithHandler == {"ping"}

\* errors
NoErr == "nil"
ErrZeroRead == "zero read"

VARIABLES
    mode,           \* conn.mode
    testRecordsDir, \* conn.testRecordsDir # ""
    pc,             \* position of run
    wpc,            \* position of the cancellation watcher goroutine
    lastRequestID,  \* conn.lastRequestID
    nRead,          \* messages read so far (ReadMessage calls that returned)
    reqHeader,      \* header of the message being processed
    reqSeq,         \* arrival index of the message being processed
    proxyHeader, proxyBody,
    resHeader, resBody, resCloseConn,
    hres,           \* what the handler call of the message being processed did
    exitFlushed,    \* the deferred function has called bufw.Flush()
    diffLogLevel,   \* run's diffLogLevel for the message being processed
    diffLogged,     \* the diff logged for the message being processed, if any
    bufw,           \* frames buffered in bufw, not yet flushed
    bufwErr,        \* sticky error of the bufio.Writer
    socket,         \* frames flushed to the client
    ret,            \* error returned by run
    upstreamID,     \* request-id counter of the upstream server
    ctxDone,        \* the connection context is cancelled
    deadlineSet,    \* number of SetDeadline calls of the watcher
    doneClosed,     \* number of close(done)
    proxyClosed,    \* number of c.proxy.Close()
    recFile,        \* recording file: "none", "temp", "renamed", "removed"
    nProxy,         \* number of proxy.Route calls that returned
    nRoute,         \* number of conn.route invocations
    metrics,        \* c.m: the Requests and Responses counters, the labels last used
    last            \* the step of run taken last

\* one call of a method of collectionContract (internal/backends/collection.go)
VARIABLES
    bpc,            \* where the call is
    bop,            \* the method called
    bin,            \* params.Docs as passed: for each document whether it is frozen
    bdocs,          \* params.Docs now: for each document whether it is frozen
    bi,             \* index of the range loop over params.Docs
    bseen,          \* params.Docs as the wrapped Collection got them
    berr,           \* the error the wrapped Collection returned
    bret,            \* what the caller of the contract method got
    bcall           \* the call: ctx and params passed and seen, invocations, results

backVars == <<bpc, bop, bin, bdocs, bi, bseen, berr, bret, bcall>>

\* calls of Handler.MsgDistinct (internal/handlers/sqlite/msg_distinct.go),
\* one after the other
VARIABLES
    dcalls,         \* calls so far
    dpc,            \* where the handler is
    ddefers,        \* its deferred functions, the one to run first at the head
    dbOpened,       \* Database handles opened, over all calls
    dbClosed,       \* Close calls on Database handles, over all calls
    qiter,          \* the iterator of the Query result
    fiter,          \* the filter iterator around it
    dclosers,       \* what was added to the multi-closer, in order
    dci,            \* index of the loop of MultiCloser.Close
    dret            \* what the handler returned

distVars == <<dcalls, dpc, ddefers, dbOpened, dbClosed, qiter, fiter, dclosers, dci, dret>>

\* two connections served at the same time (conn.run, lines 131-144, and the
\* lastRequestID field, line 82), each by its own run
VARIABLES
    netConn,        \* per connection: network and address of RemoteAddr()
    connPc,         \* per connection: where its run is
    connInfo,       \* per connection: the ConnInfo its run created
    connLastID,     \* per connection: its lastRequestID
    connSent,       \* per connection: RequestIDs of the responses, in order
    connSeen        \* per connection: PeerAddr its handlers found in ctx, in order

netVars == <<netConn, connPc, connInfo, connLastID, connSent, connSeen>>

\* calls of Handler.MsgExplain (internal/handlers/sqlite/msg_explain.go), one
\* after the other
VARIABLES
    DisableFilterPushdown,  \* the field of Handler
    ecalls,         \* calls so far
    epc,            \* where the handler is
    ereq,           \* the explain request: the explained command and $db
    eparams,        \* what GetExplainParams returned
    ereply,         \* the document of the reply
    eret            \* the error returned

explVars == <<DisableFilterPushdown, ecalls, epc, ereq, eparams, ereply, eret>>

\* calls of conn.logResponse made by conn.run (lines 309-320), on their own
VARIABLES
    logs            \* the calls so far: arguments and the level returned

logVars == <<logs>>

\* the variables conn.run does not touch
sideVars == <<backVars, distVars, netVars, explVars, logVars>>


connVars == <<mode, testRecordsDir, pc, wpc, lastRequestID, nRead, reqHeader, reqSeq,
          proxyHeader, proxyBody, resHeader, resBody, resCloseConn, bufw, bufwErr,
          socket, ret, upstreamID, ctxDone, deadlineSet, doneClosed, proxyClosed,
          recFile, nProxy, nRoute, metrics, last, hres, exitFlushed, diffLogLevel, diffLogged>>

vars == <<connVars, sideVars>>

\* what the steps of one part leave alone
notBack == <<connVars, distVars, netVars, explVars, logVars>>
notDist == <<connVars, backVars, netVars, explVars, logVars>>
notNet == <<connVars, backVars, distVars, explVars, logVars>>
notExpl == <<connVars, backVars, distVars, netVars, logVars>>
notLog == <<connVars, backVars, distVars, netVars, explVars>>

\* mutant: the counter is advanced twice for one response
Int32Add1_Twice(x) == x + 2


Int32Add1(x) == IF x = MaxInt32 THEN MinInt32 ELSE x + 1

IsNil(x) == "nil" \in DOMAIN x

\* --------------------------------------------------------- collaborators
\* the headers wire.ReadMessage hands back for the n-th message, with a nil
\* error or with a ValidationError (the header of the offending message)
ReadHeaders(n) == {MsgHeader(0, ClientRequestID(n), 0, op) : op \in RequestOpCodes}

\* what a handler call can do: return a response, return an error (a
\* CommandError or WriteErrors after ProtocolError), return neither, panic.
\* A handler returns a response or an error, never both.
HandlerResults ==
    {[kind |-> "ok", size |-> s, code |-> 0, errmsg |-> ""] : s \in OkDocSizes}
    \cup {[kind |-> "CommandError", size |-> s, code |-> ErrBadValue, errmsg |-> "bad value"] :
            s \in ErrDocSizes}
    \cup {[kind |-> k, size |-> 0, code |-> 0, errmsg |-> ""] : k \in {"none", "panic"}}

\* a write command's handler can also return WriteErrors
MsgHandlerResults ==
    HandlerResults
    \cup {[kind |-> "WriteErrors", size |-> s, code |-> 0, errmsg |-> ""] : s \in ErrDocSizes}

\* the outcome of a call with the fields route looks at: invoked tells
\* whether a handler ran, command is the command name of the request
Outcome(r, invoked, command) ==
    [kind |-> r.kind, size |-> r.size, code |-> r.code, errmsg |-> r.errmsg,
     invoked |-> invoked, command |-> command]

\* mutant: a command registered without a handler is called all the same
handleOpMsg_NoHandlerCheck(command, r) ==
    IF command \in Commands
    THEN (IF command \in WithHandler
          THEN Outcome(r, TRUE, command)
          ELSE Outcome([kind |-> "panic", size |-> 0, code |-> 0, errmsg |-> ""], TRUE, command))
    ELSE Outcome([kind |-> "CommandError", size |-> ErrDocSize, code |-> ErrCommandNotFound,
                  errmsg |-> "no such command: '" \o command \o "'"], FALSE, command)

\* lines 557-577: handleOpMsg calls the handler of a registered command; r is
\* what that handler does when called
handleOpMsg(command, r) ==
    IF command \in Commands /\ command \in WithHandler
    THEN Outcome(r, TRUE, command)
    ELSE Outcome([kind |-> "CommandError", size |-> ErrDocSize, code |-> ErrCommandNotFound,
                  errmsg |-> "no such command: '" \o command \o "'"], FALSE, command)

\* what route gets for a request: "docerr" is msg.Document() failing before
\* handleOpMsg is called, "notcalled" an opcode that is not routed
HandlerOutcomes(op) ==
    IF op = OpCodeMsg
    THEN {handleOpMsg(c, r) : c \in CommandNames, r \in MsgHandlerResults}
         \cup {Outcome([kind |-> "docerr", size |-> s, code |-> ErrInternalError,
                         errmsg |-> "invalid message"], FALSE, "") : s \in ErrDocSizes}
    ELSE IF op = OpCodeQuery
    THEN {Outcome(r, TRUE, "") : r \in HandlerResults}
    ELSE {Outcome([kind |-> "notcalled", size |-> 0, code |-> 0, errmsg |-> ""], FALSE, "")}

\* the error document of the upstream (or the one synthesized when the
\* exchange failed)
ProxyErrors ==
    {[type |-> "OpMsg", ok |-> 0, size |-> s, origin |-> "proxy",
      code |-> ErrCommandNotFound, errmsg |-> "no such command: 'noSuchCmd'"] :
        s \in ErrDocSizes}

\* the response proxy.Router.Route returns for a request: the upstream's
\* reply, or the response synthesized when the exchange failed
ProxyBodies(op) ==
    IF op = OpCodeMsg
    THEN {OpMsg(1, s, "proxy") : s \in ProxyDocSizes} \cup ProxyErrors
    ELSE IF op = OpCodeQuery
    THEN {OpReply(1, s, "proxy") : s \in ProxyDocSizes} \cup ProxyErrors
    ELSE ProxyErrors

ProxyRoute(hdr, body, id) ==
    MsgHeader(MsgHeaderLen + MarshalLen(body), id, hdr.RequestID,
              IF body.type = "OpMsg" THEN OpCodeMsg ELSE OpCodeReply)

\* ------------------------------------------------------------ conn.route
\* the response opcode route sets before it calls the handler
ResponseOpCode(op) ==
    IF op = OpCodeMsg THEN OpCodeMsg
    ELSE IF op = OpCodeQuery THEN OpCodeReply
    ELSE OpCodeZero

\* the body a handler leaves in resBody
HandlerBody(op, h) ==
    IF h.kind = "ok"
    THEN (IF op = OpCodeMsg THEN OpMsg(1, h.size, "local") ELSE OpReply(1, h.size, "local"))
    ELSE NilBody

\* err != nil after the opcode switch
RouteErr(op, h) ==
    IF op \in {OpCodeMsg, OpCodeQuery}
    THEN h.kind \in {"CommandError", "WriteErrors", "docerr"}
    ELSE TRUE
\* mutant: ResponseTo is left at its zero value
RouteHeader_ZeroResponseTo(hdr, body, id, resOp) ==
    MsgHeader(MsgHeaderLen + MarshalLen(body), id, 0, resOp)

\* lines 545-548: the header of a response that route completes
RouteHeader(hdr, body, id, resOp) ==
    MsgHeader(MsgHeaderLen + MarshalLen(body), id, hdr.RequestID, resOp)

\* lines 477-483: the body made from the error
ErrorMsg(h) ==
    [type |-> "OpMsg", ok |-> 0, size |-> h.size, origin |-> "local",
     code |-> h.code, errmsg |-> h.errmsg]

\* mutant: every error closes the connection
CloseConn_AnyError(hasErr, resOp) == hasErr

\* lines 474-535: an error on a response opcode other than OP_MSG sets
\* closeConn and returns
CloseConn(hasErr, resOp) == hasErr /\ resOp # OpCodeMsg

\* ErrorCode.String() of the codes in use
CodeString(code) ==
    IF code = ErrInternalError THEN "InternalError"
    ELSE IF code = ErrBadValue THEN "BadValue"
    ELSE IF code = ErrCommandNotFound THEN "CommandNotFound"
    ELSE "ErrorCode(" \o ToString(code) \o ")"

\* the response opcodes of the case list at lines 498-517
UnhandledOpCodes == {OpCodeQuery, OpCodeReply, OpCodeUpdate, OpCodeInsert, OpCodeGetByOID,
                     OpCodeGetMore, OpCodeDelete, OpCodeKillCursors, OpCodeCompressed}

\* mutant: the increment of Requests is reached whatever the handler did
ReachesRequests_Always(h) == TRUE

\* lines 412-471: the increment of Requests follows the opcode switch; a
\* panic of the handler inside the switch skips it
ReachesRequests(h) == h.kind # "panic"

\* lines 397-408, 467-471, 474-553: whether route reaches the increment of
\* Requests, and the labels of its increment of Responses
RouteMetrics(op, h) ==
    LET resOp == ResponseOpCode(op)
        command == IF h.command = "" THEN "unknown" ELSE h.command
        result == IF h.kind \in {"panic", "none"} THEN "panic"
                  ELSE IF ~RouteErr(op, h) THEN "ok"
                  ELSE IF resOp = OpCodeMsg
                  THEN (IF h.kind = "WriteErrors" THEN "write-error" ELSE CodeString(h.code))
                  ELSE IF resOp \in UnhandledOpCodes THEN "unhandled"
                  ELSE "unexpected"
    IN  [requests |-> IF ReachesRequests(h) THEN 1 ELSE 0,
         opcode |-> resOp, command |-> command, result |-> result]

\* route: response header, body and closeConn, the counter afterwards, and
\* whether route panicked
route(hdr, h, lastID) ==
    LET op == hdr.OpCode
        resOp == ResponseOpCode(op)
        body0 == HandlerBody(op, h)
        body1 == IF RouteErr(op, h) /\ resOp = OpCodeMsg
                 THEN ErrorMsg(h)
                 ELSE body0
    IN  IF h.kind = "panic"
        THEN [panicked |-> TRUE, header |-> NilHeader, body |-> NilBody,
              closeConn |-> FALSE, lastID |-> lastID]
        ELSE IF CloseConn(RouteErr(op, h), resOp)
        THEN [panicked |-> FALSE, header |-> MsgHeader(0, 0, 0, resOp), body |-> body0,
              closeConn |-> TRUE, lastID |-> lastID]
        ELSE IF IsNil(body1)
        THEN [panicked |-> TRUE, header |-> NilHeader, body |-> NilBody,
              closeConn |-> FALSE, lastID |-> lastID]
        ELSE [panicked |-> FALSE,
              header |-> RouteHeader(hdr, body1, Int32Add1(lastID), resOp),
              body |-> body1, closeConn |-> FALSE, lastID |-> Int32Add1(lastID)]
\* mutant: RequestID is left at its zero value
ValidationHeader_ZeroID(hdr, id, b) ==
    MsgHeader(MsgHeaderLen + b, 0, hdr.RequestID, hdr.OpCode)

\* mutant: MessageLength leaves out the header
ValidationHeader_BodyLenOnly(hdr, id, b) ==
    MsgHeader(b, id, hdr.RequestID, hdr.OpCode)

\* -------------------------------------------------------------- conn.run
\* the header of the response to a message that failed validation
ValidationHeader(hdr, id, b) ==
    MsgHeader(MsgHeaderLen + b, id, hdr.RequestID, hdr.OpCode)
\* mutant: the handler runs first, the proxy is skipped after it
AfterRead_HandlerFirst(m) == IF m # ProxyMode THEN "route" ELSE "proxy"

\* where run goes after a successful read, after proxy.Route, after route
AfterRead(m) == IF m # NormalMode THEN "proxy" ELSE "route"
AfterProxy(m) == IF m # ProxyMode THEN "route" ELSE "pick"
AfterRoute(m) == "pick"
\* mutant: the two diff modes are taken for each other
PickResponse_DiffSwapped(m, rh, rb, ph, pb) ==
    IF m = ProxyMode \/ m = DiffNormalMode
    THEN [header |-> ph, body |-> pb]
    ELSE [header |-> rh, body |-> rb]

\* mutant: an error response of the proxy is not passed on
PickResponse_DropsProxyError(m, rh, rb, ph, pb) ==
    IF m = ProxyMode \/ m = DiffProxyMode
    THEN [header |-> ph, body |-> IF pb.ok = 0 THEN NilBody ELSE pb]
    ELSE [header |-> rh, body |-> rb]

\* the response run sends: the proxy's in proxy and diff-proxy modes
PickResponse(m, rh, rb, ph, pb) ==
    IF m = ProxyMode \/ m = DiffProxyMode
    THEN [header |-> ph, body |-> pb]
    ELSE [header |-> rh, body |-> rb]

\* line 593: logResponse takes the document of an OP_MSG response; without a
\* body that is a panic
LogPanics(hdr, body) == hdr.OpCode = OpCodeMsg /\ IsNil(body)

\* mutant: closeConn is not looked at
logResponse_WarnOnly(hdr, body, closeConn) ==
    IF hdr.OpCode = OpCodeMsg /\ body.ok # 1 THEN WarnLevel ELSE DebugLevel

\* lines 589-609: the level logResponse logs a response at and returns
logResponse(hdr, body, closeConn) ==
    IF hdr.OpCode = OpCodeMsg /\ body.ok # 1
    THEN (IF closeConn THEN ErrorLevel ELSE WarnLevel)
    ELSE DebugLevel

\* mutant: the levels of the responses do not raise diffLogLevel
RaiseLevel_Keep(cur, level) == cur

\* lines 311-313 and 318-320: if level > diffLogLevel { diffLogLevel = level }
RaiseLevel(cur, level) == IF level > cur THEN level ELSE cur

\* the text of a body as String() prints it: its content, not who made it
BodyString(b) == [f \in DOMAIN b \ {"origin"} |-> b[f]]

\* lines 324-358: both unified diffs are empty, the two headers print the
\* same and so do the two bodies (a nil body prints as the empty string)
Agree(rh, rb, ph, pb) ==
    /\ rh = ph
    /\ IsNil(rb) = IsNil(pb)
    /\ (~IsNil(rb) => BodyString(rb) = BodyString(pb))

\* mutant: run keeps serving after a response marked connection-fatal
AfterFlush_KeepServing(closeConn) == NoErr

\* after the response of a routed request was flushed
AfterFlush(closeConn) == IF closeConn THEN "fatal error" ELSE NoErr
\* mutant: run returns after answering an invalid message
AfterValidationFlush_Close == "validation error"

\* after the response to an invalid message was flushed: continue
AfterValidationFlush == NoErr

\* mutant: the deferred flush writes the buffer out after a failed write
FlushAtExit_IgnoresSticky(hasBufw, sticky, pending) ==
    IF ~hasBufw THEN {[err |-> NoErr, flushed |-> FALSE, called |-> FALSE]}
    ELSE {[err |-> NoErr, flushed |-> TRUE, called |-> TRUE]}

\* lines 227-230, what the deferred bufw.Flush() does: nothing is deferred
\* before bufw exists; a writer that failed before fails again without
\* writing; otherwise the pending frames reach the socket or the flush fails
FlushAtExit(hasBufw, sticky, pending) ==
    IF ~hasBufw THEN {[err |-> NoErr, flushed |-> FALSE, called |-> FALSE]}
    ELSE IF sticky THEN {[err |-> "deferred flush error", flushed |-> FALSE, called |-> TRUE]}
    ELSE IF pending = <<>> THEN {[err |-> NoErr, flushed |-> TRUE, called |-> TRUE]}
    ELSE {[err |-> NoErr, flushed |-> TRUE, called |-> TRUE],
          [err |-> "deferred flush error", flushed |-> FALSE, called |-> TRUE]}

\* mutant: the deferred flush overwrites err whatever it is
ReturnedErr_Overwrite(e, flushErr, hasBufw, panicking) ==
    IF panicking THEN "panic"
    ELSE IF hasBufw THEN flushErr
    ELSE e

\* mutant: an error of the deferred flush replaces the error run returns with
ReturnedErr_FlushErrorWins(e, flushErr, hasBufw, panicking) ==
    IF panicking THEN "panic"
    ELSE IF hasBufw /\ flushErr # NoErr THEN flushErr
    ELSE e

\* mutant: the panic is not recovered into err
ReturnedErr_NoRecover(e, flushErr, hasBufw, panicking) ==
    IF hasBufw /\ e = NoErr THEN flushErr
    ELSE e

\* the error run returns: the deferred flush fills in err only when it is
\* nil; a recovered panic replaces it
ReturnedErr(e, flushErr, hasBufw, panicking) ==
    IF panicking THEN "panic"
    ELSE IF hasBufw /\ e = NoErr THEN flushErr
    ELSE e

\* mutant: the deferred function leaves the channel open
CloseDone_Skipped(n) == n

\* line 169: close(done), in the deferred function that recovers
CloseDone(n) == n + 1

\* mutant: newConn builds no router
HasProxy_Never(m) == FALSE

\* newConn, lines 107-122: c.proxy is the router proxy.New returned in every
\* mode but normal, nil in normal mode
HasProxy(m) == m # NormalMode

\* mutant: the recording is kept whatever ended run
RecordOutcome_AlwaysRenamed(e) == "renamed"

\* lines 190-219: the deferred function of the recording renames the
\* temporary file when err is wire.ErrZeroRead and removes it otherwise
RecordOutcome(e) == IF e = ErrZeroRead THEN "renamed" ELSE "removed"

\* run returns (or panics) with err = e: the deferred functions, last
\* registered first; sock and pending are the socket and bufw at that point
Return(e, panicking, hasBufw, sticky, sock, pending) ==
    \E fl \in FlushAtExit(hasBufw, sticky, pending) :
        LET e1 == ReturnedErr(e, fl.err, hasBufw, FALSE)
        IN  /\ pc' = "done"
            /\ ret' = ReturnedErr(e, fl.err, hasBufw, panicking)
            /\ socket' = IF fl.flushed THEN sock \o pending ELSE sock
            /\ bufw' = IF fl.flushed THEN <<>> ELSE pending
            /\ bufwErr' = (sticky \/ fl.err # NoErr)
            /\ exitFlushed' = fl.called
            /\ proxyClosed' = IF hasBufw /\ HasProxy(mode) THEN proxyClosed + 1 ELSE proxyClosed
            /\ recFile' = IF recFile = "temp" THEN RecordOutcome(e1) ELSE recFile
            /\ doneClosed' = CloseDone(doneClosed)
            /\ ctxDone' = TRUE

exitVars == <<pc, ret, socket, bufw, bufwErr, proxyClosed, recFile, doneClosed, ctxDone,
              exitFlushed>>
loopVars == <<reqHeader, reqSeq, proxyHeader, proxyBody, resHeader, resBody, resCloseConn,
              hres, diffLogLevel, diffLogged>>

\* no call of a contract method yet
NoBackCall == [ctx |-> "none", params |-> "none", n |-> 0, seenCtx |-> "none",
               seenParams |-> "none", res |-> "none", ret |-> "none"]

\* no call of a contract method is in progress
BackIdle ==
    /\ bpc = "idle"
    /\ bop = "none"
    /\ bin = <<>>
    /\ bdocs = <<>>
    /\ bi = 0
    /\ bseen = <<>>
    /\ berr = NoErr
    /\ bret = "none"
    /\ bcall = NoBackCall

\* the iterator of a Query: state, releases of the rows under it, Close calls
NoIter == [state |-> "none", released |-> 0, calls |-> 0]

\* MsgDistinct has not been called
DistIdle ==
    /\ dcalls = 0
    /\ dpc = "idle"
    /\ ddefers = <<>>
    /\ dbOpened = 0
    /\ dbClosed = 0
    /\ qiter = NoIter
    /\ fiter = "none"
    /\ dclosers = <<>>
    /\ dci = 0
    /\ dret = "none"

\* the connections served side by side
Conns == {1, 2}

\* no run yet, no ConnInfo
NoConnInfo == [nil |-> TRUE]

\* no connection accepted
NetIdle ==
    /\ netConn = [c \in Conns |-> [network |-> "unix", addr |-> "@"]]
    /\ connPc = [c \in Conns |-> "new"]
    /\ connInfo = [c \in Conns |-> NoConnInfo]
    /\ connLastID = [c \in Conns |-> 0]
    /\ connSent = [c \in Conns |-> <<>>]
    /\ connSeen = [c \in Conns |-> <<>>]

\* a document that was never built
NoDoc == [nil |-> TRUE]

\* no call of MsgExplain yet
ExplIdle ==
    /\ DisableFilterPushdown = FALSE
    /\ ecalls = 0
    /\ epc = "idle"
    /\ ereq = NoDoc
    /\ eparams = NoDoc
    /\ ereply = NoDoc
    /\ eret = NoErr

\* nothing logged
LogIdle == logs = <<>>

SideIdle == BackIdle /\ DistIdle /\ NetIdle /\ ExplIdle /\ LogIdle

\* the counters of a connection that has routed nothing
NoMetrics == [Requests |-> 0, Responses |-> 0, opcode |-> OpCodeZero, command |-> "", result |-> ""]

\* a connection whose run has not started
ConnStart ==
    /\ pc = "start"
    /\ wpc = "select"
    /\ lastRequestID = 0
    /\ nRead = 0
    /\ reqHeader = NilHeader
    /\ reqSeq = 0
    /\ proxyHeader = NilHeader
    /\ proxyBody = NilBody
    /\ resHeader = NilHeader
    /\ resBody = NilBody
    /\ resCloseConn = FALSE
    /\ hres = NoCall
    /\ diffLogLevel = InfoLevel
    /\ diffLogged = NoLog
    /\ exitFlushed = FALSE
    /\ bufw = <<>>
    /\ bufwErr = FALSE
    /\ socket = <<>>
    /\ ret = NoErr
    /\ upstreamID = 0
    /\ ctxDone = FALSE
    /\ deadlineSet = 0
    /\ doneClosed = 0
    /\ proxyClosed = 0
    /\ recFile = "none"
    /\ nProxy = 0
    /\ nRoute = 0
    /\ metrics = NoMetrics
    /\ last = "init"

Init ==
    /\ mode \in AllModes
    /\ testRecordsDir \in BOOLEAN
    /\ ConnStart
    /\ SideIdle

\* lines 172-225: the recording file, bufr and bufw
Setup ==
    /\ pc = "start"
    /\ \/ /\ pc' = "read"
          /\ recFile' = IF testRecordsDir THEN "temp" ELSE "none"
          /\ last' = "setup"
          /\ UNCHANGED <<ret, socket, bufw, bufwErr, proxyClosed, doneClosed, ctxDone,
                         exitFlushed>>
       \/ /\ testRecordsDir
          /\ \E e \in {"mkdir error", "createtemp error"} : Return(e, FALSE, FALSE, FALSE, socket, bufw)
          /\ last' = "setup failed"
    /\ UNCHANGED <<sideVars, mode, testRecordsDir, wpc, lastRequestID, nRead, loopVars, upstreamID,
                   deadlineSet, nProxy, nRoute, metrics>>

\* line 246 with err == nil
ReadRequest ==
    /\ pc = "read"
    /\ deadlineSet = 0
    /\ nRead < MaxRequests
    /\ \E h \in ReadHeaders(nRead + 1) :
        /\ reqHeader' = h
        /\ reqSeq' = nRead + 1
    /\ nRead' = nRead + 1
    /\ proxyHeader' = NilHeader
    /\ proxyBody' = NilBody
    /\ resHeader' = NilHeader
    /\ resBody' = NilBody
    /\ resCloseConn' = FALSE
    /\ hres' = NoCall
    /\ diffLogLevel' = InfoLevel
    /\ diffLogged' = NoLog
    /\ pc' = AfterRead(mode)
    /\ last' = "read"
    /\ UNCHANGED <<sideVars, mode, testRecordsDir, wpc, lastRequestID, bufw, bufwErr, socket, ret,
                   upstreamID, ctxDone, deadlineSet, doneClosed, proxyClosed, recFile, exitFlushed,
                   nProxy, nRoute, metrics>>

\* mutant: a message that failed validation is handled like any other
AfterValidationError_Handled(m) == IF m = NormalMode THEN "route" ELSE "proxy"

\* lines 247-281: the branch of the ValidationError writes the response
\* itself and continues the loop
AfterValidationError(m) == "vwrite"

\* lines 246-270: the read fails with a ValidationError
ReadValidationError ==
    /\ pc = "read"
    /\ deadlineSet = 0
    /\ nRead < MaxRequests
    /\ \E h \in ReadHeaders(nRead + 1), s \in ErrDocSizes :
        LET res == OpMsg(0, s, "validation")
        IN  /\ reqHeader' = h
            /\ resBody' = res
            /\ resHeader' = ValidationHeader(h, Int32Add1(lastRequestID), MarshalLen(res))
    /\ reqSeq' = nRead + 1
    /\ nRead' = nRead + 1
    /\ lastRequestID' = Int32Add1(lastRequestID)
    /\ proxyHeader' = NilHeader
    /\ proxyBody' = NilBody
    /\ resCloseConn' = FALSE
    /\ hres' = NoCall
    /\ diffLogLevel' = InfoLevel
    /\ diffLogged' = NoLog
    /\ pc' = AfterValidationError(mode)
    /\ last' = "validation"
    /\ UNCHANGED <<sideVars, mode, testRecordsDir, wpc, bufw, bufwErr, socket, ret,
                   upstreamID, ctxDone, deadlineSet, doneClosed, proxyClosed, recFile, exitFlushed,
                   nProxy, nRoute, metrics>>

\* run returns the error e of a failed read
ReadFails(e) ==
    /\ pc = "read"
    /\ Return(e, FALSE, TRUE, bufwErr, socket, bufw)
    /\ last' = "read failed"
    /\ UNCHANGED <<sideVars, mode, testRecordsDir, wpc, lastRequestID, nRead, loopVars, upstreamID,
                   deadlineSet, nProxy, nRoute, metrics>>

\* lines 283-285: any other read error, wire.ErrZeroRead (the client closed
\* the connection between two messages) among them
ReadError ==
    /\ deadlineSet = 0
    /\ \E e \in {ErrZeroRead, "read error"} : ReadFails(e)

\* lines 283-285: the deadline the watcher set is in the past, the pending
\* read fails
ReadDeadline ==
    /\ deadlineSet > 0
    /\ ReadFails("i/o timeout")

\* lines 299-305: proxy.Route forwards the request and returns the response
Proxy ==
    /\ pc = "proxy"
    /\ IF HasProxy(mode)
       THEN /\ \E gap \in UpstreamGaps, b \in ProxyBodies(reqHeader.OpCode) :
                /\ upstreamID' = upstreamID + gap
                /\ proxyBody' = b
                /\ proxyHeader' = ProxyRoute(reqHeader, b, upstreamID + gap)
            /\ nProxy' = nProxy + 1
            /\ pc' = AfterProxy(mode)
            /\ last' = "proxy"
            /\ UNCHANGED <<bufw, bufwErr, socket, ret, ctxDone, doneClosed, proxyClosed,
                           recFile, exitFlushed>>
       ELSE /\ Return(NoErr, TRUE, TRUE, bufwErr, socket, bufw)
            /\ last' = "proxy addr was nil"
            /\ UNCHANGED <<upstreamID, proxyBody, proxyHeader, nProxy>>
    /\ UNCHANGED <<sideVars, mode, testRecordsDir, wpc, lastRequestID, nRead, reqHeader, reqSeq,
                   resHeader, resBody, resCloseConn, hres, diffLogLevel, diffLogged,
                   deadlineSet, nRoute, metrics>>

\* lines 308-314: route calls the handler and builds the local response
Route ==
    /\ pc = "route"
    /\ nRoute' = nRoute + 1
    /\ \E h \in HandlerOutcomes(reqHeader.OpCode) :
        LET r == route(reqHeader, h, lastRequestID)
            rm == RouteMetrics(reqHeader.OpCode, h)
        IN  /\ lastRequestID' = r.lastID
            /\ hres' = h
            /\ metrics' = [Requests |-> metrics.Requests + rm.requests,
                           Responses |-> metrics.Responses + 1,
                           opcode |-> rm.opcode, command |-> rm.command,
                           result |-> rm.result]
            /\ IF r.panicked \/ LogPanics(r.header, r.body)
               THEN /\ Return(NoErr, TRUE, TRUE, bufwErr, socket, bufw)
                    /\ last' = "panic"
                    /\ UNCHANGED <<resHeader, resBody, resCloseConn, diffLogLevel>>
               ELSE /\ resHeader' = r.header
                    /\ diffLogLevel' = RaiseLevel(diffLogLevel,
                                            logResponse(r.header, r.body, r.closeConn))
                    /\ resBody' = r.body
                    /\ resCloseConn' = r.closeConn
                    /\ pc' = AfterRoute(mode)
                    /\ last' = "route"
                    /\ UNCHANGED <<ret, socket, bufw, bufwErr, proxyClosed, recFile, exitFlushed,
                                   doneClosed, ctxDone>>
    /\ UNCHANGED <<sideVars, mode, testRecordsDir, wpc, nRead, reqHeader, reqSeq, proxyHeader,
                   proxyBody, diffLogged, upstreamID, deadlineSet, nProxy>>

\* mutant: only a missing header counts
NoResponse_HeaderOnly(hdr, body) == IsNil(hdr)

\* lines 369-371: there is no response to send to the client
NoResponse(hdr, body) == IsNil(hdr) \/ IsNil(body)

\* lines 316-371: log the proxy response, log the diff in the diff modes,
\* pick the response for the mode; none to send is a panic
Pick ==
    /\ pc = "pick"
    /\ LET r == PickResponse(mode, resHeader, resBody, proxyHeader, proxyBody)
           level == IF mode # NormalMode
                    THEN RaiseLevel(diffLogLevel, logResponse(proxyHeader, proxyBody, FALSE))
                    ELSE diffLogLevel
       IN  /\ resHeader' = r.header
           /\ resBody' = r.body
           /\ diffLogLevel' = level
           /\ diffLogged' = IF mode \in {DiffNormalMode, DiffProxyMode}
                            THEN [level |-> level,
                                  agree |-> Agree(resHeader, resBody, proxyHeader, proxyBody)]
                            ELSE diffLogged
           /\ IF NoResponse(r.header, r.body)
              THEN /\ Return(NoErr, TRUE, TRUE, bufwErr, socket, bufw)
                   /\ last' = "panic"
              ELSE /\ pc' = "write"
                   /\ last' = "pick"
                   /\ UNCHANGED <<ret, socket, bufw, bufwErr, proxyClosed, recFile,
                                  exitFlushed, doneClosed, ctxDone>>
    /\ UNCHANGED <<sideVars, mode, testRecordsDir, wpc, lastRequestID, nRead, reqHeader, reqSeq,
                   proxyHeader, proxyBody, resCloseConn, hres, upstreamID, deadlineSet,
                   nProxy, nRoute, metrics>>

\* the frame wire.WriteMessage puts into bufw; req, reqID and reqOp record the
\* message it answers, validation that it answers an invalid message
Frame == [header |-> resHeader, body |-> resBody, req |-> reqSeq,
          reqID |-> reqHeader.RequestID, reqOp |-> reqHeader.OpCode,
          validation |-> (pc = "vwrite")]

\* lines 373-375 (at "write") and 272-274 (at "vwrite")
WriteResponse(at, next) ==
    /\ pc = at
    /\ \/ /\ bufw' = Append(bufw, Frame)
          /\ pc' = next
          /\ last' = "write"
          /\ UNCHANGED <<ret, socket, bufwErr, proxyClosed, recFile, exitFlushed, doneClosed, ctxDone>>
       \/ /\ Return("write error", FALSE, TRUE, TRUE, socket, bufw)
          /\ last' = "write failed"
    /\ UNCHANGED <<sideVars, mode, testRecordsDir, wpc, lastRequestID, nRead, loopVars, upstreamID,
                   deadlineSet, nProxy, nRoute, metrics>>

Write == WriteResponse("write", "flush")
\* mutant: the response to an invalid message is not flushed
ValidationWrite_NoFlush == WriteResponse("vwrite", "read")


ValidationWrite == WriteResponse("vwrite", "vflush")

\* bufw.Flush() in the loop, then what follows it: e is the error run
\* returns with, NoErr to go on reading; the deadline the watcher set is for
\* writes too, no flush succeeds after it
FlushResponse(at, e) ==
    /\ pc = at
    /\ \/ /\ deadlineSet = 0
          /\ IF e = NoErr
             THEN /\ socket' = socket \o bufw
                  /\ bufw' = <<>>
                  /\ pc' = "read"
                  /\ UNCHANGED <<ret, bufwErr, proxyClosed, recFile, exitFlushed, doneClosed, ctxDone>>
             ELSE Return(e, FALSE, TRUE, bufwErr, socket \o bufw, <<>>)
          /\ last' = "flush"
       \/ /\ Return("flush error", FALSE, TRUE, TRUE, socket, bufw)
          /\ last' = "flush failed"
    /\ UNCHANGED <<sideVars, mode, testRecordsDir, wpc, lastRequestID, nRead, loopVars, upstreamID,
                   deadlineSet, nProxy, nRoute, metrics>>

\* lines 377-384
Flush == FlushResponse("flush", AfterFlush(resCloseConn))

\* lines 276-280
ValidationFlush == FlushResponse("vflush", AfterValidationFlush)

\* lines 149-159: the watcher goroutine
WatcherDone ==
    /\ wpc = "select"
    /\ doneClosed > 0
    /\ wpc' = "exit"
    /\ UNCHANGED <<sideVars, mode, testRecordsDir, pc, lastRequestID, nRead, loopVars, bufw, bufwErr,
                   socket, ret, upstreamID, ctxDone, deadlineSet, doneClosed, proxyClosed,
                   recFile, exitFlushed, nProxy, nRoute, metrics, last>>

\* mutant: the watcher sees the cancellation and sets no deadline
WatcherCancel_NoDeadline ==
    /\ wpc = "select"
    /\ ctxDone
    /\ wpc' = "exit"
    /\ UNCHANGED <<sideVars, mode, testRecordsDir, pc, lastRequestID, nRead, loopVars, bufw, bufwErr,
                   socket, ret, upstreamID, ctxDone, deadlineSet, doneClosed, proxyClosed,
                   recFile, exitFlushed, nProxy, nRoute, metrics, last>>

WatcherCancel ==
    /\ wpc = "select"
    /\ ctxDone
    /\ deadlineSet' = deadlineSet + 1
    /\ wpc' = "exit"
    /\ UNCHANGED <<sideVars, mode, testRecordsDir, pc, lastRequestID, nRead, loopVars, bufw, bufwErr,
                   socket, ret, upstreamID, ctxDone, doneClosed, proxyClosed,
                   recFile, exitFlushed, nProxy, nRoute, metrics, last>>

\* the context passed to run is cancelled by its owner
Cancel ==
    /\ ~ctxDone
    /\ ctxDone' = TRUE
    /\ UNCHANGED <<sideVars, mode, testRecordsDir, pc, wpc, lastRequestID, nRead, loopVars, bufw,
                   bufwErr, socket, ret, upstreamID, deadlineSet, doneClosed, proxyClosed,
                   recFile, exitFlushed, nProxy, nRoute, metrics, last>>

Next ==
    \/ Setup
    \/ ReadRequest
    \/ ReadValidationError
    \/ ReadError
    \/ ReadDeadline
    \/ Proxy
    \/ Route
    \/ Pick
    \/ Write
    \/ ValidationWrite
    \/ Flush
    \/ ValidationFlush
    \/ WatcherDone
    \/ WatcherCancel
    \/ Cancel

Spec == Init /\ [][Next]_vars

\* the steps run takes by itself once a message was read
RunStep == Proxy \/ Route \/ Pick \/ Write \/ ValidationWrite \/ Flush \/ ValidationFlush

\* the scheduler runs the watcher goroutine and run's own steps, and a read
\* past its deadline returns; nothing is assumed about what the client sends
\* or about when the context is cancelled
LiveSpec ==
    /\ Spec
    /\ WF_vars(WatcherCancel)
    /\ WF_vars(ReadDeadline)
    /\ WF_vars(RunStep)

TypeOK ==
    /\ mode \in AllModes
    /\ pc \in {"start", "read", "proxy", "route", "pick", "write", "flush", "vwrite", "vflush", "done"}
    /\ wpc \in {"select", "exit"}
    /\ nRead \in 0..(MaxRequests + 1)

\* ======================================= internal/backends/collection.go
MaxDocs == 3

\* the methods of Collection
CollectionOps == {"Query", "InsertAll", "Update", "DeleteAll", "Explain"}

\* error codes of *backends.Error
ErrorCodeInsertDuplicateID == "InsertDuplicateID"
ErrorCodeCollectionNameIsInvalid == "CollectionNameIsInvalid"
ErrorCodes == {ErrorCodeInsertDuplicateID, ErrorCodeCollectionNameIsInvalid}

\* an error that is not a *backends.Error (context, driver, I/O)
OtherError == "other error"

\* what a wrapped Collection method can return as its error
BackendErrors == {NoErr, OtherError} \cup ErrorCodes

\* mutant: every code is allowed for every method
AllowedCodes_Any(op) == ErrorCodes

\* lines 81, 113, 137, 165, 188: the codes passed to checkError
AllowedCodes(op) == IF op = "InsertAll" THEN {ErrorCodeInsertDuplicateID} ELSE {}

\* checkError: nil and errors that are not *backends.Error pass; a
\* *backends.Error passes only with one of the codes given
checkError(err, codes) == err \notin ErrorCodes \/ err \in codes

\* mutant: Freeze leaves the document as it is
Freeze_Noop(frozen) == frozen

\* types.Document.Freeze: the document is frozen afterwards
Freeze(frozen) == TRUE

\* all sequences of frozen flags of at most n documents
DocFlags(n) == UNION {[1..k -> BOOLEAN] : k \in 0..n}

\* the contexts and the params objects a handler calls with
Contexts == {"ctx1", "ctx2"}
ParamsObjects == {"params1", "params2"}

\* what the wrapped method returns as its result: nil or a result object
BackendResults == {"nil", "result"}

\* mutant: the result is dropped
Returned_NilResult(res, err) == [res |-> "nil", err |-> err]

\* lines 83, 115, 139, 167, 190: return res, err
Returned(res, err) == [res |-> res, err |-> err]

\* a connection that takes no part
ConnIdle ==
    /\ mode = NormalMode
    /\ testRecordsDir = FALSE
    /\ ConnStart

BackInit ==
    /\ ConnIdle
    /\ BackIdle
    /\ DistIdle
    /\ NetIdle
    /\ ExplIdle
    /\ LogIdle

\* a handler calls a method of the contract; only InsertAll has documents
ContractCall ==
    /\ bpc \in {"idle", "returned"}
    /\ \E op \in CollectionOps, docs \in DocFlags(MaxDocs) :
        /\ (op # "InsertAll" => docs = <<>>)
        /\ bop' = op
        /\ bin' = docs
        /\ bdocs' = docs
    /\ \E ctx \in Contexts, params \in ParamsObjects :
        bcall' = [NoBackCall EXCEPT !.ctx = ctx, !.params = params]
    /\ bi' = 1
    /\ bseen' = <<>>
    /\ berr' = NoErr
    /\ bret' = "none"
    /\ bpc' = "precondition"
    /\ UNCHANGED <<notBack>>

\* lines 108-110: InsertAll freezes the documents one by one; the other
\* methods have no precondition
Precondition ==
    /\ bpc = "precondition"
    /\ IF bop = "InsertAll" /\ bi <= Len(bdocs)
       THEN /\ bdocs' = [bdocs EXCEPT ![bi] = Freeze(bdocs[bi])]
            /\ bi' = bi + 1
            /\ bpc' = bpc
       ELSE /\ bpc' = "invoke"
            /\ UNCHANGED <<bdocs, bi>>
    /\ UNCHANGED <<notBack, bop, bin, bseen, berr, bret, bcall>>

\* lines 80, 112, 136, 164, 187: the wrapped Collection is called and returns
InvokeBackend ==
    /\ bpc = "invoke"
    /\ bseen' = bdocs
    /\ berr' \in BackendErrors
    /\ \E res \in BackendResults :
        bcall' = [bcall EXCEPT !.n = @ + 1, !.seenCtx = bcall.ctx,
                               !.seenParams = bcall.params, !.res = res]
    /\ bpc' = "check"
    /\ UNCHANGED <<notBack, bop, bin, bdocs, bi, bret>>

\* lines 81-83, 113-115, 137-139, 165-167, 188-190: checkError, then the
\* result and the error are returned as they are
CheckAndReturn ==
    /\ bpc = "check"
    /\ IF checkError(berr, AllowedCodes(bop))
       THEN /\ bpc' = "returned"
            /\ bret' = Returned(bcall.res, berr).err
            /\ bcall' = [bcall EXCEPT !.ret = Returned(bcall.res, berr).res]
       ELSE /\ bpc' = "violation"
            /\ bret' = "contract violation"
            /\ UNCHANGED bcall
    /\ UNCHANGED <<notBack, bop, bin, bdocs, bi, bseen, berr>>

BackNext == ContractCall \/ Precondition \/ InvokeBackend \/ CheckAndReturn

BackSpec == BackInit /\ [][BackNext]_vars

\* ============================== internal/handlers/sqlite/msg_distinct.go
MaxCalls == 2

\* mutant: the function is not deferred
Defer_Dropped(f, stack) == stack

\* defer f(): deferred functions run last registered first
Defer(f, stack) == <<f>> \o stack

\* mutant: every Close releases the rows again
CloseIterator_Again(it) ==
    [state |-> "closed", released |-> it.released + 1, calls |-> it.calls + 1]

\* Close of the Query iterator: the first call releases the rows, later
\* calls change nothing
CloseIterator(it) ==
    [state |-> "closed",
     released |-> IF it.state = "open" THEN it.released + 1 ELSE it.released,
     calls |-> it.calls + 1]

\* the handler returns e (or panics): its deferred functions run next
DistinctExit(e) ==
    /\ dret' = e
    /\ dpc' = "defers"

DistInit ==
    /\ ConnIdle
    /\ BackIdle
    /\ DistIdle
    /\ NetIdle
    /\ ExplIdle
    /\ LogIdle

\* lines 32-41: a call starts with nothing deferred, no iterator and no
\* closer; the document and the parameters of the command
DistinctParams ==
    /\ dpc \in {"idle", "returned"}
    /\ dcalls < MaxCalls
    /\ dcalls' = dcalls + 1
    /\ ddefers' = <<>>
    /\ qiter' = NoIter
    /\ fiter' = "none"
    /\ dclosers' = <<>>
    /\ dci' = 0
    /\ \/ dpc' = "database" /\ dret' = "none"
       \/ \E e \in {"document error", "params error"} : DistinctExit(e)
    /\ UNCHANGED <<notDist, dbOpened, dbClosed>>

\* lines 43-52: h.b.Database and defer db.Close()
DistinctDatabase ==
    /\ dpc = "database"
    /\ \/ /\ dbOpened' = dbOpened + 1
          /\ ddefers' = Defer("db.Close", ddefers)
          /\ dpc' = "collection"
          /\ dret' = dret
       \/ /\ \E e \in {"InvalidNamespace", "database error"} : DistinctExit(e)
          /\ UNCHANGED <<dbOpened, ddefers>>
    /\ UNCHANGED <<notDist, dcalls, dbClosed, qiter, fiter, dclosers, dci>>

\* lines 54-62: db.Collection
DistinctCollection ==
    /\ dpc = "collection"
    /\ \/ dpc' = "query" /\ dret' = dret
       \/ \E e \in {"InvalidNamespace", "collection error"} : DistinctExit(e)
    /\ UNCHANGED <<notDist, dcalls, ddefers, dbOpened, dbClosed, qiter, fiter, dclosers, dci>>

\* lines 64-71: the multi-closer, defer closer.Close(), c.Query
DistinctQuery ==
    /\ dpc = "query"
    /\ ddefers' = Defer("closer.Close", ddefers)
    /\ \/ /\ qiter' = [state |-> "open", released |-> 0, calls |-> 0]
          /\ dpc' = "add"
          /\ dret' = dret
       \/ /\ DistinctExit("query error")
          /\ qiter' = qiter
    /\ UNCHANGED <<notDist, dcalls, dbOpened, dbClosed, fiter, dclosers, dci>>

\* lines 73-75: closer.Add(queryRes.Iter), then common.FilterIterator, which
\* adds the filter iterator to the same closer
DistinctAdd ==
    /\ dpc = "add"
    /\ dclosers' = dclosers \o <<"query", "filter">>
    /\ fiter' = "open"
    /\ dpc' = "values"
    /\ UNCHANGED <<notDist, dcalls, ddefers, dbOpened, dbClosed, qiter, dci, dret>>

\* lines 77-80: common.FilterDistinctValues reads the filter iterator; it may
\* close it when done, which closes the Query iterator under it; it returns
\* the values or an error, or panics
DistinctValues ==
    /\ dpc = "values"
    /\ \/ UNCHANGED <<qiter, fiter>>
       \/ fiter' = "closed" /\ qiter' = CloseIterator(qiter)
    /\ \/ dpc' = "reply" /\ dret' = dret
       \/ \E e \in {"values error", "panic"} : DistinctExit(e)
    /\ UNCHANGED <<notDist, dcalls, ddefers, dbOpened, dbClosed, dclosers, dci>>

\* lines 82-90: the reply
DistinctReply ==
    /\ dpc = "reply"
    /\ DistinctExit("ok")
    /\ UNCHANGED <<notDist, dcalls, ddefers, dbOpened, dbClosed, qiter, fiter, dclosers, dci>>

\* line 65 at exit: MultiCloser.Close closes what was added, one by one;
\* closing the filter iterator closes the Query iterator under it
DistinctCloserClose ==
    /\ dpc = "defers"
    /\ ddefers # <<>>
    /\ Head(ddefers) = "closer.Close"
    /\ IF dci < Len(dclosers)
       THEN /\ dci' = dci + 1
            /\ qiter' = CloseIterator(qiter)
            /\ fiter' = IF dclosers[dci + 1] = "filter" THEN "closed" ELSE fiter
            /\ ddefers' = ddefers
       ELSE /\ ddefers' = Tail(ddefers)
            /\ UNCHANGED <<dci, qiter, fiter>>
    /\ UNCHANGED <<notDist, dcalls, dpc, dbOpened, dbClosed, dclosers, dret>>

\* line 52 at exit: db.Close()
DistinctDBClose ==
    /\ dpc = "defers"
    /\ ddefers # <<>>
    /\ Head(ddefers) = "db.Close"
    /\ dbClosed' = dbClosed + 1
    /\ ddefers' = Tail(ddefers)
    /\ UNCHANGED <<notDist, dcalls, dpc, dbOpened, qiter, fiter, dclosers, dci, dret>>

\* the deferred functions are done: the caller has the result
DistinctReturn ==
    /\ dpc = "defers"
    /\ ddefers = <<>>
    /\ dpc' = "returned"
    /\ UNCHANGED <<notDist, dcalls, ddefers, dbOpened, dbClosed, qiter, fiter, dclosers, dci, dret>>

DistNext ==
    \/ DistinctParams
    \/ DistinctDatabase
    \/ DistinctCollection
    \/ DistinctQuery
    \/ DistinctAdd
    \/ DistinctValues
    \/ DistinctReply
    \/ DistinctCloserClose
    \/ DistinctDBClose
    \/ DistinctReturn

DistSpec == DistInit /\ [][DistNext]_vars


\* ============================================ two connections, conn.run
MaxConnRequests == 2

\* the remote ends a listener can accept
RemoteAddrs ==
    {[network |-> "tcp", addr |-> a] : a \in {"127.0.0.1:50001", "127.0.0.1:50002"}}
    \cup {[network |-> "unix", addr |-> "@"]}

\* conninfo.NewConnInfo(): PeerAddr is empty
NewConnInfo == [PeerAddr |-> ""]

\* mutant: the address is set whatever the network
PeerAddr_AnyNetwork(nc) == nc.addr

\* lines 140-142: PeerAddr is set from RemoteAddr() unless the network is unix
PeerAddr(nc) == IF nc.network # "unix" THEN nc.addr ELSE NewConnInfo.PeerAddr

\* two accepted connections; two TCP connections to one listener differ in
\* their remote address
NetInit ==
    /\ ConnIdle
    /\ BackIdle
    /\ DistIdle
    /\ ExplIdle
    /\ LogIdle
    /\ netConn \in [Conns -> RemoteAddrs]
    /\ (netConn[1].network = "tcp" /\ netConn[2].network = "tcp") =>
            netConn[1].addr # netConn[2].addr
    /\ connPc = [c \in Conns |-> "new"]
    /\ connInfo = [c \in Conns |-> NoConnInfo]
    /\ connLastID = [c \in Conns |-> 0]
    /\ connSent = [c \in Conns |-> <<>>]
    /\ connSeen = [c \in Conns |-> <<>>]

\* lines 137-144: run creates the ConnInfo of the connection and puts it
\* into the context of everything it calls
ConnRun(c) ==
    /\ connPc[c] = "new"
    /\ connInfo' = [connInfo EXCEPT ![c] = [PeerAddr |-> PeerAddr(netConn[c])]]
    /\ connPc' = [connPc EXCEPT ![c] = "serving"]
    /\ UNCHANGED <<notNet, netConn, connLastID, connSent, connSeen>>

\* lines 308-309, 545-548: one request of the connection is routed: the
\* handler reads the ConnInfo of ctx, the response takes its RequestID from
\* the lastRequestID of the conn
ConnRoute(c) ==
    /\ connPc[c] = "serving"
    /\ Len(connSent[c]) < MaxConnRequests
    /\ connSeen' = [connSeen EXCEPT ![c] = Append(@, connInfo[c].PeerAddr)]
    /\ connLastID' = [connLastID EXCEPT ![c] = Int32Add1(@)]
    /\ connSent' = [connSent EXCEPT ![c] = Append(@, Int32Add1(connLastID[c]))]
    /\ UNCHANGED <<notNet, netConn, connPc, connInfo>>

\* lines 132-138: run returns, the deferred connInfo.Close() runs
ConnExit(c) ==
    /\ connPc[c] = "serving"
    /\ connPc' = [connPc EXCEPT ![c] = "done"]
    /\ UNCHANGED <<notNet, netConn, connInfo, connLastID, connSent, connSeen>>

NetNext == \E c \in Conns : ConnRun(c) \/ ConnRoute(c) \/ ConnExit(c)

NetSpec == NetInit /\ [][NetNext]_vars


\* ================================ internal/handlers/sqlite/msg_explain.go
MaxExplains == 2

\* documents are sequences of <<key, value>> fields, in order.
\* types.Document.Set: the value of an existing key is replaced in place, a
\* new key is appended
Set(doc, key, value) ==
    IF \E i \in 1..Len(doc) : doc[i][1] = key
    THEN [i \in 1..Len(doc) |-> IF doc[i][1] = key THEN <<key, value>> ELSE doc[i]]
    ELSE Append(doc, <<key, value>>)

\* types.MakeDocument(0): a document with no fields
MakeDocument == <<>>

\* the commands explained
ExplainedCommands ==
    {<< <<"count", "values">> >>,
     << <<"find", "values">>, <<"filter", "v > 0">> >>}

Databases == {"test", "admin"}

\* the explain requests
ExplainRequests == [command : ExplainedCommands, db : Databases]

\* common.GetExplainParams: the explained command and the database of the
\* request
GetExplainParams(req) == [Command |-> req.command, DB |-> req.db]

\* lines 46-76: the document of the reply (serverInfo is left out)
ExplainReply(params, disablePushdown) ==
    [queryPlanner |-> MakeDocument,
     explainVersion |-> "1",
     command |-> Set(params.Command, "$db", params.DB),
     pushdown |-> ~disablePushdown,
     sortingPushdown |-> FALSE,
     limitPushdown |-> FALSE,
     ok |-> 1]

ExplInit ==
    /\ ConnIdle
    /\ BackIdle
    /\ DistIdle
    /\ NetIdle
    /\ LogIdle
    /\ DisableFilterPushdown \in BOOLEAN
    /\ ecalls = 0
    /\ epc = "idle"
    /\ ereq = NoDoc
    /\ eparams = NoDoc
    /\ ereply = NoDoc
    /\ eret = NoErr

\* line 30: the handler is called with an explain request
ExplainCall ==
    /\ epc \in {"idle", "returned"}
    /\ ecalls < MaxExplains
    /\ ecalls' = ecalls + 1
    /\ ereq' \in ExplainRequests
    /\ eparams' = NoDoc
    /\ ereply' = NoDoc
    /\ eret' = NoErr
    /\ epc' = "params"
    /\ UNCHANGED <<notExpl, DisableFilterPushdown>>

\* lines 31-39: msg.Document() and GetExplainParams, either can fail
ExplainParams ==
    /\ epc = "params"
    /\ \/ /\ eparams' = GetExplainParams(ereq)
          /\ epc' = "hostname"
          /\ UNCHANGED eret
       \/ /\ eret' \in {"document error", "params error"}
          /\ epc' = "returned"
          /\ UNCHANGED eparams
    /\ UNCHANGED <<notExpl, DisableFilterPushdown, ecalls, ereq, ereply>>

\* lines 41-44: os.Hostname()
ExplainHostname ==
    /\ epc = "hostname"
    /\ \/ /\ epc' = "reply"
          /\ UNCHANGED eret
       \/ /\ eret' = "hostname error"
          /\ epc' = "returned"
    /\ UNCHANGED <<notExpl, DisableFilterPushdown, ecalls, ereq, eparams, ereply>>

\* lines 46-79: the reply is built and returned
ExplainReturn ==
    /\ epc = "reply"
    /\ ereply' = ExplainReply(eparams, DisableFilterPushdown)
    /\ epc' = "returned"
    /\ UNCHANGED <<notExpl, DisableFilterPushdown, ecalls, ereq, eparams, eret>>

ExplNext ==
    \/ ExplainCall
    \/ ExplainParams
    \/ ExplainHostname
    \/ ExplainReturn

ExplSpec == ExplInit /\ [][ExplNext]_vars


\* ================================== conn.logResponse and its call sites
MaxLogs == 2

\* the responses logResponse is called with: OP_MSG with a document whose ok
\* is 1 or not, OP_REPLY, and the header route leaves with no body
LogResponses ==
    {[header |-> MsgHeader(MsgHeaderLen + MarshalLen(b), 1, 7, OpCodeMsg), body |-> b] :
        b \in {OpMsg(1, s, "local") : s \in OkDocSizes} \cup ProxyErrors}
    \cup {[header |-> MsgHeader(MsgHeaderLen + MarshalLen(b), 1, 7, OpCodeReply), body |-> b] :
        b \in {OpReply(1, s, "local") : s \in OkDocSizes}}
    \cup {[header |-> MsgHeader(0, 0, 0, op), body |-> NilBody] : op \in {OpCodeReply, OpCodeZero}}

\* line 317: the closeConn the call for the proxy response passes
ProxyCloseConn(closeConn) == FALSE

\* the record of one call
LogCall(who, r, closeConn) ==
    [who |-> who, opcode |-> r.header.OpCode,
     ok |-> IF IsNil(r.body) THEN 0 - 1 ELSE r.body.ok,
     closeConn |-> closeConn,
     level |-> logResponse(r.header, r.body, closeConn)]

LogInit ==
    /\ ConnIdle
    /\ BackIdle
    /\ DistIdle
    /\ NetIdle
    /\ ExplIdle
    /\ logs = <<>>

\* lines 309-313: the local response is logged with the closeConn of route
LogLocal ==
    /\ Len(logs) < MaxLogs
    /\ \E r \in LogResponses, closeConn \in BOOLEAN :
        logs' = Append(logs, LogCall("Response", r, closeConn))
    /\ UNCHANGED notLog

\* lines 316-320: the proxy response is logged
LogProxy ==
    /\ Len(logs) < MaxLogs
    /\ \E r \in LogResponses, closeConn \in BOOLEAN :
        logs' = Append(logs, LogCall("Proxy response", r, ProxyCloseConn(closeConn)))
    /\ UNCHANGED notLog

LogNext == LogLocal \/ LogProxy

LogSpec == LogInit /\ [][LogNext]_vars

\* ================================================================ claims
\* every frame handed to wire.WriteMessage so far, in order
Written == socket \o bufw

LocalModes == {NormalMode, DiffNormalMode}
ProxyModes == {ProxyMode, DiffProxyMode}

\* C1: a read that fails with a ValidationError does not end run: the error
\* response is built, written and flushed (one more frame on the socket) and
\* run is back at reading the next message
C1_ValidationErrorKeepsServing ==
    [][/\ (pc = "read" /\ last' = "validation") => (pc' = "vwrite" /\ ret' = NoErr)
       /\ (pc = "vwrite" /\ last' = "write") => (pc' = "vflush" /\ ret' = NoErr)
       /\ (pc = "vflush" /\ last' = "flush") =>
            /\ pc' = "read"
            /\ ret' = NoErr
            /\ bufw' = <<>>
            /\ Len(socket') = Len(socket) + 1
            /\ socket'[Len(socket')].body.origin = "validation"
            /\ socket'[Len(socket')].req = nRead]_vars

\* a validation-error response on the socket, followed by the response to a
\* later well-formed request
C1_Witness ==
    \E i, j \in 1..Len(socket) :
        /\ i < j
        /\ socket[i].body.origin = "validation"
        /\ socket[j].body.origin \in {"local", "proxy"}

\* C2: the response to a message that failed validation is an OP_MSG (header
\* opcode OP_MSG, body with ok = 0) whose ResponseTo is the RequestID of the
\* offending message, whatever its opcode
C2_ValidationResponseIsOpMsg ==
    \A i \in 1..Len(Written) :
        Written[i].body.origin = "validation" =>
            /\ Written[i].header.OpCode = OpCodeMsg
            /\ Written[i].body.type = "OpMsg"
            /\ Written[i].body.ok = 0
            /\ Written[i].header.ResponseTo = Written[i].reqID

\* C3: in every mode the header of each response written has ResponseTo equal
\* to the RequestID of the request it answers
C3_ResponseToMatches ==
    \A i \in 1..Len(Written) : Written[i].header.ResponseTo = Written[i].reqID

\* a handler response and a validation-error response, to requests with
\* different ids, both on the socket
C3_Witness ==
    /\ Len(socket) = 2
    /\ socket[1].reqID # socket[2].reqID
    /\ socket[1].body.origin = "local"
    /\ socket[2].body.origin = "validation"

\* C4 as stated: in every mode the RequestIDs of the responses written come
\* from lastRequestID and are strictly increasing
C4_Original ==
    /\ \A i \in 1..Len(Written) : Written[i].header.RequestID \in 1..lastRequestID
    /\ \A i, j \in 1..Len(Written) :
        i < j => Written[i].header.RequestID < Written[j].header.RequestID

\* C4 amended: in normal and diff-normal modes the RequestIDs of the responses
\* written (validation-error responses included) are values of lastRequestID
\* and strictly increasing
C4_LocalRequestIDsIncrease ==
    mode \in LocalModes =>
        /\ \A i \in 1..Len(Written) : Written[i].header.RequestID \in 1..lastRequestID
        /\ \A i, j \in 1..Len(Written) :
            i < j => Written[i].header.RequestID < Written[j].header.RequestID

\* two validation-error responses in diff-normal mode
C4_Witness ==
    /\ mode = DiffNormalMode
    /\ Len(socket) = 2
    /\ socket[1].body.origin = "validation"
    /\ socket[2].body.origin = "validation"

\* C5: with the local handler answering (normal, diff-normal), the i-th
\* response written has RequestID i, and whenever run is about to read, the
\* counter equals the number of responses written
C5_RequestIDsCountResponses ==
    mode \in LocalModes =>
        /\ \A i \in 1..Len(Written) : Written[i].header.RequestID = i
        /\ pc = "read" => lastRequestID = Len(Written)

\* two handler responses in normal mode
C5_Witness ==
    /\ mode = NormalMode
    /\ Len(socket) = 2
    /\ socket[1].body.origin = "local"
    /\ socket[2].body.origin = "local"

\* C6: every response written has MessageLength = header size + length of its
\* encoded body
C6_MessageLength ==
    \A i \in 1..Len(Written) :
        Written[i].header.MessageLength = MsgHeaderLen + MarshalLen(Written[i].body)

\* an OP_REPLY from the handler and a validation-error OP_MSG on the socket
C6_Witness ==
    \E i, j \in 1..Len(socket) :
        /\ socket[i].body.origin = "local"
        /\ socket[i].body.type = "OpReply"
        /\ socket[j].body.origin = "validation"

\* C7: the response to a well-formed request is the handler's in normal and
\* diff-normal modes and the upstream's in proxy and diff-proxy modes; the
\* other one is never written
C7_ResponseOfTheMode ==
    /\ [](\A i \in 1..Len(Written) :
            /\ mode \in LocalModes => Written[i].body.origin \in {"local", "validation"}
            /\ mode \in ProxyModes => Written[i].body.origin \in {"proxy", "validation"})
    /\ [][(pc = "pick" /\ pc' = "write") =>
            /\ mode \in LocalModes => (resHeader' = resHeader /\ resBody' = resBody)
            /\ mode \in ProxyModes => (resHeader' = proxyHeader /\ resBody' = proxyBody)]_vars
    /\ [][(pc = "write" /\ last' = "write") =>
            /\ bufw' = Append(bufw, Frame)
            /\ Frame.req = nRead]_vars

\* diff-proxy mode: the handler produced a response as well, the upstream's
\* was sent
C7_Witness ==
    /\ mode = DiffProxyMode
    /\ nRoute = 1
    /\ Len(socket) = 1
    /\ socket[1].body.origin = "proxy"
    /\ socket[1].body.size = 38

\* C8: outside normal mode, proxy.Route has returned for a request before
\* route is invoked for it
C8_ProxyBeforeHandler ==
    mode # NormalMode =>
        /\ nRoute <= nProxy
        /\ pc = "route" => (~IsNil(proxyHeader) /\ ~IsNil(proxyBody) /\ nProxy = nRoute + 1)

\* diff-normal mode, second request: both the proxy and the handler have run
C8_Witness ==
    /\ mode = DiffNormalMode
    /\ nProxy = 2
    /\ nRoute = 2

\* C9: one request at a time: at each read every earlier message has its
\* response on the socket and nothing is buffered; while a message is being
\* processed it is the only one without a response; responses are in
\* arrival order
C9_Serialized ==
    /\ pc = "read" => (bufw = <<>> /\ Len(socket) = nRead)
    /\ pc \in {"proxy", "route", "pick", "write", "vwrite"} =>
            (bufw = <<>> /\ Len(socket) = nRead - 1 /\ reqSeq = nRead)
    /\ pc \in {"flush", "vflush"} =>
            (Len(bufw) = 1 /\ Len(socket) = nRead - 1 /\ reqSeq = nRead)
    /\ \A i \in 1..Len(Written) : Written[i].req = i

\* two responses flushed, run reading the third message
C9_Witness ==
    /\ pc = "read"
    /\ Len(socket) = 2
    /\ nRead = 2

\* C10: run returns a non-nil error on every path
C10_ReturnsError == pc = "done" => ret # NoErr

\* run has returned "fatal error" after sending a response
C10_Witness ==
    /\ pc = "done"
    /\ ret = "fatal error"
    /\ Len(socket) = 1

\* the message being processed is an OP_MSG whose handler call ended in an
\* error (a CommandError, CommandNotFound among them, or WriteErrors)
HandlerError ==
    /\ ~IsNil(hres)
    /\ ~IsNil(reqHeader)
    /\ reqHeader.OpCode = OpCodeMsg
    /\ hres.kind \in {"CommandError", "WriteErrors"}

\* the body of the last frame handed to the socket
LastSent(sock) == sock[Len(sock)].body

UnknownCommand ==
    /\ ~IsNil(hres)
    /\ ~IsNil(reqHeader)
    /\ reqHeader.OpCode = OpCodeMsg
    /\ hres.kind # "docerr"
    /\ (hres.command \notin Commands \/ hres.command \notin WithHandler)

RoutedOpCodes == {OpCodeMsg, OpCodeQuery}

\* the message being processed was read whole and has an opcode that is not
\* routed: a legacy opcode or an unknown one
UnroutedRequest ==
    /\ ~IsNil(reqHeader)
    /\ reqHeader.OpCode \notin RoutedOpCodes
    /\ ~(~IsNil(resBody) /\ resBody.origin = "validation")

\* C13 as stated: in every mode no frame answers a request with a legacy or
\* unknown opcode, and run does not get back to the read after such a request
C13_Original ==
    /\ \A i \in 1..Len(Written) :
            Written[i].validation \/ Written[i].reqOp \in RoutedOpCodes
    /\ ~(pc = "read" /\ UnroutedRequest)

\* C13, amended: in normal and diff-normal modes a request with a legacy or
\* unknown opcode ends run in the same iteration with nothing written for it
\* or after it; in diff-proxy mode run ends in the same iteration after the
\* upstream's response was written; in proxy mode the upstream's response is
\* written and run reads the next request
C13_LegacyOpcode ==
    /\ [](mode \in LocalModes =>
            \A i \in 1..Len(Written) :
                Written[i].validation \/ Written[i].reqOp \in RoutedOpCodes)
    /\ []((mode # ProxyMode /\ UnroutedRequest) => pc # "read")
    /\ [][(mode \in LocalModes /\ UnroutedRequest /\ pc # "done" /\ pc' = "done") =>
            (socket' = socket /\ bufw' = bufw)]_vars
    /\ [][(mode = DiffProxyMode /\ UnroutedRequest /\ pc = "flush" /\ last' = "flush") =>
            (pc' = "done" /\ ret' = "fatal error" /\ LastSent(socket').origin = "proxy")]_vars
    /\ [][(mode = ProxyMode /\ UnroutedRequest /\ pc = "flush" /\ last' = "flush") =>
            (pc' = "read" /\ LastSent(socket').origin = "proxy")]_vars

\* run ended on an OP_DELETE in normal mode after an answered request
C13_Witness ==
    /\ mode = NormalMode
    /\ pc = "done"
    /\ last = "panic"
    /\ reqHeader.OpCode = OpCodeDelete
    /\ Len(socket) = 1
    /\ bufw = <<>>
    /\ reqSeq = 2

\* C14: whenever route returned closeConn = true, run ends only after the
\* response chosen for the mode was written and flushed, with the error
\* "fatal error" (or with the error of a failed write or flush)
C14_CloseConnExitsAfterFlush ==
    (pc = "done" /\ resCloseConn) =>
        /\ last \in {"flush", "write failed", "flush failed"}
        /\ (last = "flush" =>
                /\ ret = "fatal error"
                /\ Len(socket) > 0
                /\ socket[Len(socket)].req = reqSeq)

\* C15: a read error that is not a ValidationError, a write error and a flush
\* error (those of the response to an invalid message too) make run return
\* that error in the same step; nothing reaches the socket with it, and after
\* run returned no message is read and no response is written
C15_TransportErrorReturns ==
    /\ [][(pc # "done" /\ last' = "read failed") =>
            /\ pc' = "done"
            /\ ret' \in {ErrZeroRead, "read error", "i/o timeout"}
            /\ socket' = socket /\ bufw' = bufw /\ nRead' = nRead]_vars
    /\ [][(pc # "done" /\ last' = "write failed") =>
            /\ pc \in {"write", "vwrite"}
            /\ pc' = "done"
            /\ ret' = "write error"
            /\ socket' = socket /\ bufw' = bufw /\ nRead' = nRead]_vars
    /\ [][(pc # "done" /\ last' = "flush failed") =>
            /\ pc \in {"flush", "vflush"}
            /\ pc' = "done"
            /\ ret' = "flush error"
            /\ socket' = socket /\ bufw' = bufw /\ nRead' = nRead]_vars
    /\ [][pc = "done" =>
            /\ pc' = "done"
            /\ ret' = ret
            /\ socket' = socket /\ bufw' = bufw /\ nRead' = nRead]_vars

\* the flush of the second response failed: run returned the flush error and
\* the frame never reached the socket
C15_Witness ==
    /\ pc = "done"
    /\ last = "flush failed"
    /\ ret = "flush error"
    /\ Len(socket) = 1
    /\ Len(bufw) = 1
    /\ bufw[1].req = 2

C17_CancelUnblocksRead ==
    (ctxDone /\ pc = "read") ~> (pc = "done")

\* cancelled at the read, run returned the error of the read past its deadline
C17_Witness ==
    /\ pc = "done"
    /\ last = "read failed"
    /\ ret = "i/o timeout"
    /\ deadlineSet = 1
    /\ wpc = "exit"

\* C18: once the temporary file of the recording exists, every exit of run
\* either renames it (exactly when the error run returns is wire.ErrZeroRead)
\* or removes it; without it nothing is renamed or removed
C18_RecordingKeptOnZeroRead ==
    /\ pc = "done" => recFile \in {"none", "renamed", "removed"}
    /\ (pc = "done" /\ recFile # "none") => (recFile = "renamed" <=> ret = ErrZeroRead)
    /\ (pc = "done" /\ recFile # "none") => testRecordsDir
    /\ (pc # "done") => recFile \in {"none", "temp"}
    /\ (pc \notin {"start", "done"}) => (recFile = "temp" <=> testRecordsDir)

\* the client closed the connection after one answered request: renamed
C18_Witness ==
    /\ pc = "done"
    /\ testRecordsDir
    /\ ret = ErrZeroRead
    /\ recFile = "renamed"
    /\ Len(socket) = 1

\* C19: every exit of run after bufw was created calls bufw.Flush(), which
\* leaves nothing pending unless the writer has failed; the error of that
\* flush is never the error run returns in place of an earlier one
C19_FlushedAtExit ==
    /\ (pc = "done" /\ last # "setup failed") =>
            /\ exitFlushed
            /\ (bufw = <<>> \/ bufwErr)
    /\ (pc = "done" /\ last = "setup failed") => ~exitFlushed
    /\ pc = "done" => ret # "deferred flush error"
    /\ (pc = "done" /\ last = "write failed") => ret = "write error"
    /\ (pc = "done" /\ last = "flush failed") => ret = "flush error"
    /\ (pc = "done" /\ last = "flush") => ret = "fatal error"

\* run returned the write error although the flush at exit failed as well
C19_Witness ==
    /\ pc = "done"
    /\ last = "write failed"
    /\ exitFlushed
    /\ bufwErr
    /\ ret = "write error"
    /\ Len(socket) = 1

DiffModes == {DiffNormalMode, DiffProxyMode}

\* the response is an OP_MSG whose document does not have ok = 1
Failed(hdr, body) == hdr.OpCode = OpCodeMsg /\ body.ok # 1

ProxyFailed == ~IsNil(proxyBody) /\ proxyBody \in ProxyErrors

\* C21: outside normal mode an error response from proxy.Route is a response
\* like any other: the call does not end run; in proxy and diff-proxy modes
\* it is the response picked and written; run ends at the pick only for a
\* missing local response and after the flush only on the local closeConn
C21_ProxyFailureIsAResponse ==
    /\ [][pc = "proxy" => (pc' # "done" /\ ret' = NoErr)]_vars
    /\ [][(pc = "pick" /\ pc' # "pick" /\ ProxyFailed /\ mode \in ProxyModes) =>
            /\ pc' = "write"
            /\ resHeader' = proxyHeader
            /\ resBody' = proxyBody]_vars
    /\ [][(pc = "pick" /\ pc' = "done" /\ ProxyFailed) =>
            (mode = DiffNormalMode /\ IsNil(resBody))]_vars
    /\ [][(pc = "write" /\ last' = "write" /\ ProxyFailed /\ mode \in ProxyModes) =>
            LastSent(bufw') = proxyBody]_vars
    /\ [][(pc = "flush" /\ last' = "flush" /\ ProxyFailed) =>
            /\ (pc' = "done" <=> resCloseConn)
            /\ (mode = ProxyMode => pc' = "read")]_vars

\* in proxy mode the error response of a failed exchange reached the client
\* and the request after it was answered
C21_Witness ==
    /\ mode = ProxyMode
    /\ pc = "read"
    /\ Len(socket) = 2
    /\ socket[1].body \in ProxyErrors
    /\ socket[2].body.ok = 1
    /\ ret = NoErr

\* the call of the contract method is over: returned or ended in a violation
BackOver == bpc \in {"returned", "violation"}

\* C22: in every call of collectionContract.InsertAll the wrapped InsertAll
\* got every document of params.Docs frozen, and every document is frozen
\* when the call is over, whatever the wrapped method returned
C22_FrozenThroughInsertAll ==
    /\ (bop = "InsertAll" /\ bpc \in {"check", "returned", "violation"}) =>
            /\ Len(bseen) = Len(bin)
            /\ \A i \in 1..Len(bseen) : bseen[i]
    /\ (bop = "InsertAll" /\ BackOver) =>
            /\ Len(bdocs) = Len(bin)
            /\ \A i \in 1..Len(bdocs) : bdocs[i]

\* InsertAll of three documents, not all frozen before, returned a duplicate
\* _id error
C22_Witness ==
    /\ bop = "InsertAll"
    /\ bpc = "returned"
    /\ bret = ErrorCodeInsertDuplicateID
    /\ Len(bin) = MaxDocs
    /\ \E i \in 1..Len(bin) : ~bin[i]
    /\ \E i \in 1..Len(bin) : bin[i]

\* C23: the error a contract method returns to its caller is the wrapped
\* method's error, and a *backends.Error among them has a code allowed for
\* that method: InsertDuplicateID for InsertAll, none for Query, Update,
\* DeleteAll and Explain; with any other code the call ends in a contract
\* violation and returns nothing to the caller
C23_ErrorsWithinContract ==
    /\ bpc = "returned" =>
            /\ bret = berr
            /\ (bret \in ErrorCodes =>
                    (bop = "InsertAll" /\ bret = ErrorCodeInsertDuplicateID))
    /\ bpc = "violation" =>
            /\ bret = "contract violation"
            /\ berr \in ErrorCodes
            /\ ~(bop = "InsertAll" /\ berr = ErrorCodeInsertDuplicateID)
    /\ (BackOver /\ berr \in ErrorCodes /\ bop # "InsertAll") => bpc = "violation"
    /\ (BackOver /\ berr \notin ErrorCodes) => bpc = "returned"

\* Query got a duplicate _id error from the backend: a contract violation
C23_Witness ==
    /\ bop = "Query"
    /\ berr = ErrorCodeInsertDuplicateID
    /\ bpc = "violation"
    /\ bret # berr

\* C24: in MsgDistinct a Database handle that was opened is closed exactly
\* once by the time the handler has returned, on every exit path; the
\* iterator of a successful Query is added to the multi-closer of the call
\* and is closed by the time the handler has returned
C24_HandlesAndIteratorsClosed ==
    /\ dbClosed <= dbOpened
    /\ dbOpened <= dbClosed + 1
    /\ dbOpened <= dcalls
    /\ dpc \in {"idle", "returned"} => dbClosed = dbOpened
    /\ (dpc \notin {"idle", "returned", "defers"} /\ dpc # "database" /\ dpc # "collection") =>
            dbOpened = dbClosed + 1
    /\ (qiter.state # "none" /\ dpc # "add") =>
            \E i \in 1..Len(dclosers) : dclosers[i] = "query"
    /\ (dpc = "returned" /\ qiter.state # "none") => qiter.state = "closed"

\* the second call failed after its Query: both handles and the iterator
\* are closed
C24_Witness ==
    /\ dpc = "returned"
    /\ dcalls = 2
    /\ dret = "values error"
    /\ dbOpened = 2
    /\ dbClosed = 2
    /\ qiter.state = "closed"

ResultLabels ==
    {"ok", "write-error", "panic", "unhandled", "unexpected"}
    \cup {CodeString(c) : c \in {ErrInternalError, ErrBadValue, ErrCommandNotFound}}

\* C26: every request the runner processes increments Requests once and
\* Responses once, with a result label of the list; a command that failed is
\* counted with a result other than ok, one that succeeded with ok
C26_MetricsCounted ==
    /\ [][nRoute' = nRoute + 1 =>
            /\ metrics'.Requests = metrics.Requests + 1
            /\ metrics'.Responses = metrics.Responses + 1
            /\ metrics'.result \in ResultLabels
            /\ (hres'.kind = "ok") <=> (metrics'.result = "ok")]_vars
    /\ [](pc \in {"write", "vwrite"} =>
            (metrics.Requests = reqSeq /\ metrics.Responses = reqSeq))

\* the address the handlers of connection c are to see
OwnPeerAddr(c) == IF netConn[c].network = "unix" THEN "" ELSE netConn[c].addr

\* C27: connections are independent: whatever the other connection does, the
\* RequestIDs of the responses on a connection are 1, 2, ... from its own
\* counter, every handler call on it sees the remote address of that
\* connection (empty for a unix socket), two TCP connections see different
\* addresses, and a step of one connection changes nothing of the other
C27_ConnectionsIndependent ==
    /\ [](\A c \in Conns :
            /\ connSent[c] = [i \in 1..Len(connSent[c]) |-> i]
            /\ connLastID[c] = Len(connSent[c])
            /\ \A i \in 1..Len(connSeen[c]) : connSeen[c][i] = OwnPeerAddr(c))
    /\ []((/\ \A c \in Conns : netConn[c].network = "tcp" /\ connSeen[c] # <<>>) =>
            connSeen[1][1] # connSeen[2][1])
    /\ [][\A c \in Conns :
            (connSent'[c] # connSent[c] \/ connInfo'[c] # connInfo[c]) =>
                \A d \in Conns \ {c} :
                    /\ connSent'[d] = connSent[d]
                    /\ connSeen'[d] = connSeen[d]
                    /\ connLastID'[d] = connLastID[d]
                    /\ connInfo'[d] = connInfo[d]]_vars

\* a TCP and a unix connection answered two requests each while the other
\* was being served
C27_Witness ==
    /\ netConn[1].network = "tcp"
    /\ netConn[2].network = "unix"
    /\ connSent = [c \in Conns |-> <<1, 2>>]
    /\ connSeen[1] = <<netConn[1].addr, netConn[1].addr>>
    /\ connSeen[2] = <<"", "">>

\* C28: every reply to an explain over count or find has ok = 1,
\* explainVersion "1", as command the explained command with $db appended,
\* and a queryPlanner document that is not empty
C28_ExplainReply ==
    (epc = "returned" /\ eret = NoErr) =>
        /\ ereply.ok = 1
        /\ ereply.explainVersion = "1"
        /\ ereply.command = Append(ereq.command, <<"$db", ereq.db>>)
        /\ ereply.queryPlanner # <<>>

\* the response picked for the mode lacks its header or its body
PickedMissing ==
    LET r == PickResponse(mode, resHeader, resBody, proxyHeader, proxyBody)
    IN  IsNil(r.header) \/ IsNil(r.body)

\* C29: when the response picked for the mode has no header or no body, run
\* writes nothing for the request and ends with "panic"; no frame without a
\* body (or without a header) is ever written
C29_MissingResponsePanics ==
    /\ [][(pc = "pick" /\ pc' # "pick" /\ PickedMissing) =>
            /\ pc' = "done"
            /\ ret' = "panic"
            /\ last' = "panic"
            /\ Written' = Written
            /\ \A i \in 1..Len(Written') : Written'[i].req # reqSeq]_vars
    /\ [](\A i \in 1..Len(Written) :
            ~IsNil(Written[i].header) /\ ~IsNil(Written[i].body))

\* a request was answered, then the response picked for the second request
\* had a header and no body (an unrouted opcode in normal mode)
C29_Witness ==
    /\ pc = "done"
    /\ ret = "panic"
    /\ last = "panic"
    /\ mode = NormalMode
    /\ reqSeq = 2
    /\ resCloseConn
    /\ ~IsNil(resHeader)
    /\ IsNil(resBody)
    /\ Len(socket) = 1

\* C30: logResponse returns debug for a response that is not OP_MSG and for
\* an OP_MSG response with ok = 1; for an OP_MSG response with another ok it
\* returns error when closeConn is true and warning when it is false; the
\* proxy response is logged with closeConn = false
C30_LogLevels ==
    \A i \in 1..Len(logs) :
        LET l == logs[i]
        IN  /\ (l.opcode # OpCodeMsg \/ l.ok = 1) => l.level = DebugLevel
            /\ (l.opcode = OpCodeMsg /\ l.ok # 1 /\ l.closeConn) => l.level = ErrorLevel
            /\ (l.opcode = OpCodeMsg /\ l.ok # 1 /\ ~l.closeConn) => l.level = WarnLevel
            /\ l.who = "Proxy response" => ~l.closeConn

\* a failed OP_MSG response was logged at error level with closeConn, then
\* the same as a proxy response at warning level
C30_Witness ==
    /\ Len(logs) = 2
    /\ logs[1].who = "Response"
    /\ logs[1].opcode = OpCodeMsg
    /\ logs[1].ok = 0
    /\ logs[1].closeConn
    /\ logs[1].level = ErrorLevel
    /\ logs[2].who = "Proxy response"
    /\ logs[2].opcode = OpCodeMsg
    /\ logs[2].ok = 0
    /\ logs[2].level = WarnLevel

\* the higher of two levels
Highest(a, b) == IF a > b THEN a ELSE b

\* C31: in the diff modes the diff of a request is logged at the highest of
\* the levels logResponse used for the local and for the proxy response of
\* that request, debug when both were logged at debug
C31_DiffLevelIsHighest ==
    [][(pc = "pick" /\ pc' # "pick" /\ mode \in DiffModes) =>
            diffLogged'.level =
                Highest(logResponse(resHeader, resBody, resCloseConn),
                        logResponse(proxyHeader, proxyBody, FALSE))]_vars

\* run is answering a message that failed validation
AnsweringInvalid == pc \in {"vwrite", "vflush"}

\* C32: in every mode a message that failed validation is answered by run
\* itself: from its read to the flush of the answer neither proxy.Route nor
\* route is called and neither counter of the metrics changes; the
\* lastRequestID advances by one, at the read, and nothing else of the conn
\* changes
C32_ValidationErrorFrame ==
    /\ [][(pc = "read" /\ last' = "validation") =>
            /\ pc' = "vwrite"
            /\ lastRequestID' = lastRequestID + 1
            /\ resHeader'.RequestID = lastRequestID'
            /\ UNCHANGED <<nProxy, nRoute, metrics, upstreamID, mode, proxyClosed>>]_vars
    /\ [][AnsweringInvalid =>
            /\ pc' \in {"vwrite", "vflush", "read", "done"}
            /\ UNCHANGED <<nProxy, nRoute, metrics, upstreamID, mode, lastRequestID>>]_vars

\* in proxy mode two messages failed validation and were answered: no call
\* of the proxy or of route, the counter went from 0 to 2
C32_Witness ==
    /\ mode = ProxyMode
    /\ pc = "read"
    /\ Len(socket) = 2
    /\ socket[1].validation
    /\ socket[2].validation
    /\ nProxy = 0
    /\ nRoute = 0
    /\ metrics = NoMetrics
    /\ lastRequestID = 2

\* C33: the conn newConn builds has a proxy router exactly when its mode is
\* not normal: in normal mode proxy.Route is never called; in proxy mode
\* route is never called and lastRequestID changes on validation errors only;
\* the panic "proxy addr was nil" does not happen
C33_ProxyIffNotNormal ==
    /\ [](mode = NormalMode => (nProxy = 0 /\ pc # "proxy" /\ proxyClosed = 0))
    /\ [](proxyClosed > 0 => mode # NormalMode)
    /\ [](last = "proxy" => (mode # NormalMode /\ nProxy > 0))
    /\ [](mode = ProxyMode => (nRoute = 0 /\ metrics = NoMetrics /\ pc # "route"))
    /\ [][(mode = ProxyMode /\ lastRequestID' # lastRequestID) =>
            (pc = "read" /\ last' = "validation")]_vars
    /\ [](pc = "proxy" => HasProxy(mode))
    /\ [](last # "proxy addr was nil")

\* in proxy mode a message that failed validation and a well-formed one were
\* answered: one call of the proxy, none of route, the counter at 1
C33_Witness ==
    /\ mode = ProxyMode
    /\ pc = "read"
    /\ Len(socket) = 2
    /\ socket[1].validation
    /\ ~socket[2].validation
    /\ nProxy = 1
    /\ nRoute = 0
    /\ lastRequestID = 1

\* C34: a conn that owns a proxy router closes it exactly once on every exit
\* of run, the exits by panic and the exits on a failure to create the
\* recording directory or the temporary file among them
C34_ProxyClosedOnce ==
    /\ proxyClosed <= 1
    /\ (pc # "done") => proxyClosed = 0
    /\ (pc = "done" /\ HasProxy(mode)) => proxyClosed = 1

\* C35: the watcher goroutine terminates: every exit of run, by return or by
\* recovered panic, closes the done channel exactly once, and the goroutine
\* leaves its select afterwards
C35_WatcherTerminates ==
    /\ [](doneClosed <= 1)
    /\ [](pc = "done" <=> doneClosed = 1)
    /\ [](wpc = "exit" => (doneClosed = 1 \/ ctxDone))
    /\ (pc = "done") ~> (wpc = "exit")

\* run ended in a recovered panic before any cancellation from outside, and
\* the watcher has left its select
C35_Witness ==
    /\ pc = "done"
    /\ ret = "panic"
    /\ doneClosed = 1
    /\ wpc = "exit"
    /\ deadlineSet = 0

\* C36: the watcher calls SetDeadline at most once, and only when the
\* context was cancelled while run was still executing: never after run
\* has returned
C36_DeadlineOnlyWhileRunning ==
    /\ [](deadlineSet <= 1)
    /\ [][deadlineSet' # deadlineSet => (ctxDone /\ pc # "done")]_vars

\* the wrapped method was invoked once, with the context and the params
\* object of the call, and the documents are those passed in, frozen in
\* InsertAll and as they were in the other methods
InvokedOnceUnchanged ==
    /\ bcall.n = 1
    /\ bcall.seenCtx = bcall.ctx
    /\ bcall.seenParams = bcall.params
    /\ Len(bseen) = Len(bin)
    /\ bseen = bdocs
    /\ bop # "InsertAll" => bdocs = bin

\* C37 as stated: every call of a contract method invokes the wrapped method
\* once and returns the result and the error the wrapped method returned
C37_Original ==
    BackOver =>
        /\ InvokedOnceUnchanged
        /\ bcall.ret = bcall.res
        /\ bret = berr

\* C37, amended: every call invokes the wrapped method exactly once with the
\* same context and params object and changes nothing but the frozen state of
\* the documents of InsertAll; a call that returns returns the result and
\* the error of the wrapped method as they are; a call whose error is outside
\* the contract returns neither
C37_WrapperIsTransparent ==
    /\ bcall.n <= 1
    /\ bpc \in {"precondition", "invoke"} => bcall.n = 0
    /\ BackOver => InvokedOnceUnchanged
    /\ bpc = "returned" => (bcall.ret = bcall.res /\ bret = berr)
    /\ bpc = "violation" =>
            /\ bcall.ret = "none"
            /\ bret = "contract violation"
            /\ ~checkError(berr, AllowedCodes(bop))

\* Update returned the result object together with an error that is not a
\* *backends.Error, both as the wrapped method returned them
C37_Witness ==
    /\ bop = "Update"
    /\ bpc = "returned"
    /\ bcall.n = 1
    /\ bcall.res = "result"
    /\ bcall.ret = "result"
    /\ berr = OtherError
    /\ bret = OtherError
    /\ bcall.seenCtx = "ctx2"
    /\ bcall.seenParams = "params1"

\* C38: route counts a request with a recognized legacy opcode with the
\* result "unhandled" and one with an unknown opcode with the result
\* "unexpected", and returns closeConn = true for both; an OP_QUERY whose
\* handler returned an error ends the connection too
C38_UnroutedOpcodes ==
    [][nRoute' = nRoute + 1 =>
        /\ reqHeader.OpCode \in LegacyOpCodes =>
                (metrics'.result = "unhandled" /\ resCloseConn' /\ pc' # "done")
        /\ reqHeader.OpCode = OpCodeUnknown =>
                (metrics'.result = "unexpected" /\ resCloseConn' /\ pc' # "done")
        /\ (reqHeader.OpCode = OpCodeQuery /\ hres'.kind = "CommandError") =>
                (resCloseConn' /\ pc' # "done")]_vars

\* the handler of the routed OP_MSG or OP_QUERY panicked (Panicked) or
\* returned neither a response nor an error (ReturnedNothing)
Panicked(h) == h.kind = "panic"
ReturnedNothing(h) == h.kind = "none"

\* what C39 says of both cases but for the request counter
PanicOutcome ==
    /\ metrics'.Responses = metrics.Responses + 1
    /\ metrics'.result = "panic"
    /\ lastRequestID' = lastRequestID
    /\ Written' = Written
    /\ pc' = "done"
    /\ ret' = "panic"

\* C39 as stated: in both cases the request counter is left as it was
C39_Original ==
    [][(nRoute' = nRoute + 1 /\ (Panicked(hres') \/ ReturnedNothing(hres'))) =>
            (PanicOutcome /\ metrics'.Requests = metrics.Requests)]_vars

\* C39, amended: in both cases route counts one response with result "panic",
\* lastRequestID is unchanged, nothing is written and run ends with "panic";
\* the request counter is unchanged when the handler panicked and is
\* incremented once when the handler returned neither a response nor an error
C39_HandlerPanics ==
    [][(nRoute' = nRoute + 1 /\ (Panicked(hres') \/ ReturnedNothing(hres'))) =>
            /\ reqHeader.OpCode \in {OpCodeMsg, OpCodeQuery}
            /\ PanicOutcome
            /\ Panicked(hres') => metrics'.Requests = metrics.Requests
            /\ ReturnedNothing(hres') => metrics'.Requests = metrics.Requests + 1]_vars

\* the second request's handler returned neither a response nor an error:
\* two requests and two responses counted, one response on the socket
C39_Witness ==
    /\ pc = "done"
    /\ ret = "panic"
    /\ ReturnedNothing(hres)
    /\ reqSeq = 2
    /\ metrics.Requests = 2
    /\ metrics.Responses = 2
    /\ metrics.result = "panic"
    /\ Len(socket) = 1
    /\ lastRequestID = 1

====
